---------------------------- MODULE Spec2Model ----------------------------
(***************************************************************************)
(* A model of the PDF signing component PdfSigningTool.tsx: the viewport   *)
(* registry (pageViewportSizes), the placement model (placedSignatures),   *)
(* the pixel-to-point transform and the export loop                        *)
(* (applySignaturesAndDownload), with the asynchronous steps of upload,    *)
(* placement and export as separate actions.                               *)
(*                                                                         *)
(* The source file holds two revisions of the component (lines 1-431 and   *)
(* lines 433-929).  The variable rev says which one runs; they differ in   *)
(* beforePdfUpload and in the error handling of the export.                *)
(*                                                                         *)
(* Numbers are JavaScript numbers, modelled as exact fractions <<n, d>>;   *)
(* d = 0 stands for the non-finite values: <<1, 0>> is Infinity, <<-1, 0>> *)
(* is -Infinity and <<0, 0>> is NaN.  Rounding of binary floating point    *)
(* and the sign of zero are not modelled.                                  *)
(***************************************************************************)
EXTENDS Integers, Sequences, FiniteSets, TLC

VARIABLES
    rev,                \* 1: the revision at lines 1-431, 2: at lines 433-929
    pdfArrayBuffer,     \* useState: the stored document bytes, or Null
    numPages,           \* useState: the number of page containers rendered
    scale,              \* useState: the zoom level, in tenths
    placedSignatures,   \* useState: the sequence of placed signatures
    pageViewportSizes,  \* useRef: page number -> viewport entry
    pdfLibDocRef,       \* useRef: the parsed handle (a heap address), or 0
    heap,               \* the PDFDocument objects: address -> document
    loads,              \* the calls of beforePdfUpload that are suspended
    clicks,             \* the calls of onPageClick waiting for img.onload
    exports,            \* the calls of applySignaturesAndDownload that are suspended
    finished,           \* what the last step did, for the properties to refer to
    used                \* the number of user events so far

vars == <<rev, pdfArrayBuffer, numPages, scale, placedSignatures,
          pageViewportSizes, pdfLibDocRef, heap, loads, clicks, exports,
          finished, used>>

Null == "null"

----------------------------------------------------------------------------
(* Bounds of the model.                                                    *)

\* The events a user causes in one run: choosing a file, moving the zoom
\* slider, clicking on a page that is ready, dragging or resizing a
\* signature, and asking for an export that is ready.  The steps these
\* start (reads, parses, renders, image loads) are not counted.
MaxEvents == 4

----------------------------------------------------------------------------
(* JavaScript numbers.                                                     *)

Abs(n) == IF n < 0 THEN -n ELSE n

Sign(n) == IF n < 0 THEN -1 ELSE IF n > 0 THEN 1 ELSE 0

RECURSIVE Gcd(_, _)
Gcd(a, b) == IF b = 0 THEN a ELSE Gcd(b, a % b)

\* The fraction n/d in lowest terms with a positive denominator.
Norm(n, d) ==
    IF d = 0 THEN <<Sign(n), 0>>
    ELSE LET g == Gcd(Abs(n), Abs(d))
         IN  <<(Sign(d) * n) \div g, Abs(d) \div g>>

Num(n) == <<n, 1>>

IsFinite(a) == a[2] # 0

\* a + b
Add(a, b) ==
    IF a[2] = 0 /\ b[2] = 0
    THEN (IF a = b THEN a ELSE <<0, 0>>)
    ELSE Norm(a[1] * b[2] + b[1] * a[2], a[2] * b[2])

\* a - b
Sub(a, b) == Add(a, <<-b[1], b[2]>>)

\* a * b
Mul(a, b) == Norm(a[1] * b[1], a[2] * b[2])

\* a / b
Div(a, b) ==
    LET s == IF b[1] < 0 THEN -1 ELSE 1
    IN  Norm(a[1] * b[2] * s, a[2] * Abs(b[1]))

\* a < b, false when either is NaN
Less(a, b) ==
    /\ a # <<0, 0>>
    /\ b # <<0, 0>>
    /\ a # b
    /\ IF a[2] = 0 THEN a[1] < 0
       ELSE IF b[2] = 0 THEN b[1] > 0
       ELSE a[1] * b[2] < b[1] * a[2]

----------------------------------------------------------------------------
(* The files a user can choose, and what the PDF libraries make of them.   *)

\* A choosable file: its MIME type, its size in bytes (only zero or not
\* matters), whether pdf-lib and pdf.js can parse it, and its pages' sizes
\* in PDF points.  Z is a document whose only page has a media box of width
\* zero.
Files ==
    [ A |-> [type |-> "application/pdf", byteLength |-> 1, valid |-> TRUE,
             pages |-> << [width |-> 300, height |-> 400],
                          [width |-> 300, height |-> 400] >>],
      B |-> [type |-> "application/pdf", byteLength |-> 1, valid |-> TRUE,
             pages |-> << [width |-> 200, height |-> 300] >>],
      X |-> [type |-> "application/pdf", byteLength |-> 1, valid |-> FALSE,
             pages |-> << >>],
      Z |-> [type |-> "application/pdf", byteLength |-> 1, valid |-> TRUE,
             pages |-> << [width |-> 0, height |-> 400] >>] ]

FileNames == DOMAIN Files

PageNumbers == 1..2

\* PDFDocument.load(bytes) when it resolves: a new document object without
\* any drawn image.
ParsedDocument(bytes) == [src |-> bytes, overlays |-> << >>]

\* pdfDoc.getPageCount()
PageCount(doc) == Len(Files[doc.src].pages)

\* The smallest address no object of the heap h has.
NewAddress(h) == CHOOSE a \in 1..(Cardinality(DOMAIN h) + 1) : a \notin DOMAIN h

\* The heap h without the objects no reference in roots points to.
Collect(h, roots) == [a \in DOMAIN h \cap roots |-> h[a]]

\* const pdfDoc = await PDFDocument.load(bytes), for bytes that parse: the
\* address of the document and the heap that holds it.
PDFDocumentLoad(h, bytes) ==
    LET a == NewAddress(h)
    IN  [doc |-> a, heap |-> [x \in DOMAIN h \cup {a} |->
                                 IF x = a THEN ParsedDocument(bytes) ELSE h[x]]]

\* The sequence s without its k-th element.
Remove(s, k) == SubSeq(s, 1, k - 1) \o SubSeq(s, k + 1, Len(s))

----------------------------------------------------------------------------
(* Program constants.                                                      *)

CanvasWidth == 600
CanvasHeight == 200
ScaleInit == 12
ScaleMax == 20

\* The zoom levels the slider is moved to, in tenths.
Scales == {ScaleInit, ScaleMax}

\* viewport.width * 0.3
SigWidthFraction == <<3, 10>>

\* What finished holds after a step no property refers to.
NoEvent == [op |-> "none"]

----------------------------------------------------------------------------
(* The page containers and the viewport registry.                          *)

\* pageContainersRef.current[p] is set: <Document> has loaded the stored
\* bytes and renders a container for each of the numPages pages.
ContainerExists(p) ==
    /\ pdfArrayBuffer # Null
    /\ Files[pdfArrayBuffer].valid
    /\ p \in 1..numPages

\* <Page pageNumber={p} scale={scale}> has rendered: the stored bytes have
\* such a page.
PageRendered(p) ==
    /\ ContainerExists(p)
    /\ p <= Len(Files[pdfArrayBuffer].pages)

\* container.getBoundingClientRect() of a rendered page: the page's size in
\* points times the zoom level.
ContainerRect(p) ==
    LET size == Files[pdfArrayBuffer].pages[p]
    IN  [width  |-> Div(Num(size.width * scale), Num(10)),
         height |-> Div(Num(size.height * scale), Num(10))]

\* Mutant of ViewportOf: a page without an entry gets a default entry.
ViewportOrDefault(registry, p) ==
    IF p \in DOMAIN registry THEN <<registry[p]>>
    ELSE << [width |-> Num(600), height |-> Num(800),
             pdfWidth |-> Num(300), pdfHeight |-> Num(400)] >>

\* pageViewportSizes.current[p]: << >> (undefined) when the page has no
\* entry, otherwise the entry in a sequence of one element
ViewportOf(registry, p) ==
    IF p \in DOMAIN registry THEN <<registry[p]>> ELSE << >>

\* The entry onPageRenderSuccess(p) stores: the container's size in pixels
\* and the size in points of page p of the parsed handle.
ViewportEntry(p) ==
    LET size == Files[heap[pdfLibDocRef].src].pages[p]
        rect == ContainerRect(p)
    IN  [width |-> rect.width, height |-> rect.height,
         pdfWidth |-> Num(size.width), pdfHeight |-> Num(size.height)]

\* onPageRenderSuccess(p)
OnPageRenderSuccess(p) ==
    /\ PageRendered(p)
    /\ pdfLibDocRef # 0
    /\ p <= PageCount(heap[pdfLibDocRef])
    /\ pageViewportSizes' =
           [q \in DOMAIN pageViewportSizes \cup {p} |->
               IF q = p THEN ViewportEntry(p) ELSE pageViewportSizes[q]]
    /\ exports' =
           [k \in DOMAIN exports |->
               [exports[k] EXCEPT !.stale =
                   @ \/ ViewportOf(pageViewportSizes, p) # <<ViewportEntry(p)>>]]
    /\ finished' = NoEvent
    /\ UNCHANGED <<rev, pdfArrayBuffer, numPages, scale, placedSignatures,
                   pdfLibDocRef, heap, loads, clicks, used>>

\* <Slider onChange={(v) => setScale(v)}>
SetScale(v) ==
    /\ used < MaxEvents
    /\ v # scale
    /\ scale' = v
    /\ used' = used + 1
    /\ finished' = NoEvent
    /\ UNCHANGED <<rev, pdfArrayBuffer, numPages, placedSignatures,
                   pageViewportSizes, pdfLibDocRef, heap, loads, clicks,
                   exports>>

----------------------------------------------------------------------------
(* beforePdfUpload.                                                        *)

\* beforePdfUpload(file) up to its first await
UploadStart(f) ==
    /\ used < MaxEvents
    /\ IF rev = 2 /\ Files[f].type # "application/pdf"
       THEN loads' = loads
       ELSE loads' = Append(loads, [file |-> f, pc |-> "read"])
    /\ used' = used + 1
    /\ finished' = NoEvent
    /\ UNCHANGED <<rev, pdfArrayBuffer, numPages, scale, placedSignatures,
                   pageViewportSizes, pdfLibDocRef, heap, clicks, exports>>

\* file.arrayBuffer() resolves
UploadRead(k) ==
    /\ k \in 1..Len(loads)
    /\ loads[k].pc = "read"
    /\ IF rev = 1
       THEN /\ pdfArrayBuffer' = loads[k].file
            /\ loads' = [loads EXCEPT ![k].pc = "parse"]
       ELSE /\ pdfArrayBuffer' = pdfArrayBuffer
            /\ IF Files[loads[k].file].byteLength = 0
               THEN loads' = Remove(loads, k)
               ELSE loads' = [loads EXCEPT ![k].pc = "parse"]
    /\ finished' = NoEvent
    /\ UNCHANGED <<rev, numPages, scale, placedSignatures, pageViewportSizes,
                   pdfLibDocRef, heap, clicks, exports, used>>

\* The objects something still refers to, given the handle and the exports.
Roots(ref, exps) == {ref} \cup {exps[x].pdfDoc : x \in 1..Len(exps)}

\* PDFDocument.load(arrayBuffer) resolves or rejects.  Revision 2 stores the
\* bytes, the handle and the page count here; revision 1 stored the bytes
\* before the parse and stores only the handle and the page count.
UploadParsed(k) ==
    /\ k \in 1..Len(loads)
    /\ loads[k].pc = "parse"
    /\ loads' = Remove(loads, k)
    /\ IF Files[loads[k].file].valid
       THEN LET r == PDFDocumentLoad(heap, loads[k].file)
            IN  /\ pdfArrayBuffer' = IF rev = 2 THEN loads[k].file
                                               ELSE pdfArrayBuffer
                /\ pdfLibDocRef' = r.doc
                /\ heap' = Collect(r.heap, Roots(r.doc, exports))
                /\ numPages' = PageCount(r.heap[r.doc])
       ELSE UNCHANGED <<pdfArrayBuffer, pdfLibDocRef, heap, numPages>>
    /\ finished' = NoEvent
    /\ UNCHANGED <<rev, scale, placedSignatures, pageViewportSizes, clicks,
                   exports, used>>

\* <Document onLoadSuccess={(pdf) => setNumPages(pdf.numPages)}>
OnLoadSuccess ==
    /\ pdfArrayBuffer # Null
    /\ Files[pdfArrayBuffer].valid
    /\ numPages # Len(Files[pdfArrayBuffer].pages)
    /\ numPages' = Len(Files[pdfArrayBuffer].pages)
    /\ finished' = NoEvent
    /\ UNCHANGED <<rev, pdfArrayBuffer, scale, placedSignatures,
                   pageViewportSizes, pdfLibDocRef, heap, loads, clicks,
                   exports, used>>

----------------------------------------------------------------------------
(* The placement model: onPageClick, onDragStop, onResizeStop.             *)

\* canvas.toDataURL("image/png"): a PNG image of the pad's pixel size
CanvasToDataURL == [width |-> CanvasWidth, height |-> CanvasHeight]

\* The points of a page container a user clicks, in pixels from its top
\* left corner.
ClickPoints == { <<180, 240>> }

\* onPageClick(e, p) up to img.src = dataUrl: nothing happens without a
\* container or without a viewport entry; otherwise the image starts to load.
OnPageClick(p, pt) ==
    /\ used < MaxEvents
    /\ used' = used + 1
    /\ LET viewport == ViewportOf(pageViewportSizes, p)
       IN  IF ~ContainerExists(p) \/ viewport = << >>
           THEN clicks' = clicks
           ELSE clicks' = Append(clicks,
                       [page |-> p,
                        clickX |-> Num(pt[1]),
                        clickY |-> Num(pt[2]),
                        dataUrl |-> CanvasToDataURL,
                        viewport |-> viewport[1],
                        desiredDisplayedSigWidth |->
                            Mul(viewport[1].width, SigWidthFraction)])
    /\ finished' = [op |-> "click", page |-> p]
    /\ UNCHANGED <<rev, pdfArrayBuffer, numPages, scale, placedSignatures,
                   pageViewportSizes, pdfLibDocRef, heap, loads, exports>>

\* Mutant of Aspect: width over height.
AspectInverted(img) == Div(Num(img.width), Num(img.height))

\* img.height / img.width of the image decoded from a data URL
Aspect(img) == Div(Num(img.height), Num(img.width))

\* The record img.onload builds for the click c; n signatures exist.
NewSig(c, n) ==
    LET displayW == c.desiredDisplayedSigWidth
        displayH == Mul(displayW, Aspect(c.dataUrl))
    IN  [id |-> n + 1,
         page |-> c.page,
         imgDataUrl |-> c.dataUrl,
         displayX |-> Sub(c.clickX, Div(displayW, Num(2))),
         displayY |-> Sub(c.clickY, Div(displayH, Num(2))),
         displayW |-> displayW,
         displayH |-> displayH]

\* img.onload of the click k
ImgOnload(k) ==
    /\ k \in 1..Len(clicks)
    /\ placedSignatures' =
           Append(placedSignatures, NewSig(clicks[k], Len(placedSignatures)))
    /\ clicks' = Remove(clicks, k)
    /\ finished' = [op |-> "place", click |-> clicks[k]]
    /\ UNCHANGED <<rev, pdfArrayBuffer, numPages, scale, pageViewportSizes,
                   pdfLibDocRef, heap, loads, exports, used>>

\* The positions react-rnd reports when a drag of the signature sig stops:
\* the top left corner of the page and, with bounds="parent", the lowest
\* position that keeps the box inside the page container.
DragPositions(sig) ==
    { <<Num(0), Num(0)>> }
    \cup (IF PageRendered(sig.page)
             /\ ~Less(ContainerRect(sig.page).height, sig.displayH)
          THEN { <<Num(0), Sub(ContainerRect(sig.page).height, sig.displayH)>> }
          ELSE {})

\* Mutant of Move: every record is moved, not only the one with the id.
MoveAll(sigs, id, d) ==
    [j \in 1..Len(sigs) |->
        [sigs[j] EXCEPT !.displayX = d[1], !.displayY = d[2]]]

\* sigs.map((s) => s.id === sig.id ? { ...s, displayX: d.x, displayY: d.y }
\* : s)
Move(sigs, id, d) ==
    [j \in 1..Len(sigs) |->
        IF sigs[j].id = id
        THEN [sigs[j] EXCEPT !.displayX = d[1], !.displayY = d[2]]
        ELSE sigs[j]]

\* onDragStop of the signature with the id of placedSignatures[i]
OnDragStop(i, d) ==
    /\ used < MaxEvents
    /\ i \in 1..Len(placedSignatures)
    /\ ContainerExists(placedSignatures[i].page)
    /\ placedSignatures' = Move(placedSignatures, placedSignatures[i].id, d)
    /\ used' = used + 1
    /\ finished' = [op |-> "move", id |-> placedSignatures[i].id]
    /\ UNCHANGED <<rev, pdfArrayBuffer, numPages, scale, pageViewportSizes,
                   pdfLibDocRef, heap, loads, clicks, exports>>

\* The sizes onResizeStop may find in ref.style, and the positions it is
\* given: a box of 60 by 40 pixels, and a box whose width is zero.
ResizeStyles ==
    { [width  |-> [value |-> 60, unit |-> "px"],
       height |-> [value |-> 40, unit |-> "px"]],
      [width  |-> [value |-> 0, unit |-> "px"],
       height |-> [value |-> 40, unit |-> "px"]] }

ResizePositions == { <<Num(100), Num(100)>> }

\* parseFloat of a CSS length: the number in front of the unit
ParseFloat(len) == Num(len.value)

\* sigs.map((s) => s.id === sig.id ? { ...s, displayW: ..., displayH: ...,
\* displayX: pos.x, displayY: pos.y } : s)
Resize(sigs, id, style, pos) ==
    [j \in 1..Len(sigs) |->
        IF sigs[j].id = id
        THEN [sigs[j] EXCEPT !.displayW = ParseFloat(style.width),
                             !.displayH = ParseFloat(style.height),
                             !.displayX = pos[1],
                             !.displayY = pos[2]]
        ELSE sigs[j]]

\* onResizeStop of the signature with the id of placedSignatures[i]
OnResizeStop(i, style, pos) ==
    /\ used < MaxEvents
    /\ i \in 1..Len(placedSignatures)
    /\ ContainerExists(placedSignatures[i].page)
    /\ placedSignatures' =
           Resize(placedSignatures, placedSignatures[i].id, style, pos)
    /\ used' = used + 1
    /\ finished' = [op |-> "resize", id |-> placedSignatures[i].id]
    /\ UNCHANGED <<rev, pdfArrayBuffer, numPages, scale, pageViewportSizes,
                   pdfLibDocRef, heap, loads, clicks, exports>>

----------------------------------------------------------------------------
(* The transform from display pixels to PDF points.                        *)

PxPerPdfPointX(viewport) == Div(viewport.width, viewport.pdfWidth)

PxPerPdfPointY(viewport) == Div(viewport.height, viewport.pdfHeight)

PdfX(sig, viewport) == Div(sig.displayX, PxPerPdfPointX(viewport))

\* Mutant of PdfY: the display y is scaled without the vertical flip.
PdfYNoFlip(sig, viewport) == Div(sig.displayY, PxPerPdfPointY(viewport))

\* Mutant of PdfY: the flip is taken from the top edge of the box, not from
\* its bottom edge.
PdfYTopEdge(sig, viewport) ==
    Div(Sub(viewport.height, sig.displayY), PxPerPdfPointY(viewport))

PdfY(sig, viewport) ==
    Div(Sub(viewport.height, Add(sig.displayY, sig.displayH)),
        PxPerPdfPointY(viewport))

PdfW(sig, viewport) == Div(sig.displayW, PxPerPdfPointX(viewport))

PdfH(sig, viewport) == Div(sig.displayH, PxPerPdfPointY(viewport))

\* The options object handed to page.drawImage
DrawOptions(sig, viewport) ==
    [x |-> PdfX(sig, viewport), y |-> PdfY(sig, viewport),
     width |-> PdfW(sig, viewport), height |-> PdfH(sig, viewport)]

----------------------------------------------------------------------------
(* applySignaturesAndDownload.                                             *)

\* The loop "for (const sig of placedSignatures)" from index i up to its next
\* await: the index of the first signature from i on whose page has a viewport
\* entry in the registry, Len(sigs) + 1 when there is none.
RECURSIVE NextWithViewport(_, _, _)
NextWithViewport(sigs, i, registry) ==
    IF i > Len(sigs) THEN i
    ELSE IF ViewportOf(registry, sigs[i].page) = << >>
         THEN NextWithViewport(sigs, i + 1, registry)
         ELSE i

\* console.warn calls the revision makes for n signatures without a viewport
SkipWarnings(n) == IF rev = 2 THEN n ELSE 0

\* The export e after the loop has run from index i to its next await:
\* suspended in embedPng for the next signature that has a viewport entry,
\* or in pdfDoc.save() when the loop is over.
Resume(e, i) ==
    LET j == NextWithViewport(e.placedSignatures, i, pageViewportSizes)
        warned == e.warned + SkipWarnings(j - i)
    IN  IF j > Len(e.placedSignatures)
        THEN [e EXCEPT !.pc = "save", !.i = j, !.warned = warned,
                       !.viewport = << >>, !.options = << >>]
        ELSE LET sig == e.placedSignatures[j]
                 viewport == ViewportOf(pageViewportSizes, sig.page)[1]
             IN  [e EXCEPT !.pc = "embed", !.i = j, !.warned = warned,
                           !.viewport = <<viewport>>,
                           !.options = <<DrawOptions(sig, viewport)>>]

\* Whether the guard at the head of applySignaturesAndDownload lets it run
ExportReady == pdfLibDocRef # 0 /\ pdfArrayBuffer # Null

\* <Button disabled={placedSignatures.length === 0}>
ExportButtonDisabled == Len(placedSignatures) = 0

\* What an export that has ended leaves in finished.
Ended(e, status, overlays) ==
    [op |-> "export", status |-> status, overlays |-> overlays,
     pdfArrayBuffer |-> e.pdfArrayBuffer,
     placedSignatures |-> e.placedSignatures, drawn |-> e.drawn,
     warned |-> e.warned, registry |-> e.registry, stale |-> e.stale]

\* The suspended exports after applySignaturesAndDownload() has run up to
\* its first await: as before when the guard returns, otherwise with a new
\* export that holds the bytes and the placements of this render.
ApplySignaturesAndDownload ==
    IF ~ExportReady
    THEN exports
    ELSE Append(exports,
                [pc |-> "load",
                 pdfArrayBuffer |-> pdfArrayBuffer,
                 placedSignatures |-> placedSignatures,
                 pdfDoc |-> 0, i |-> 0, warned |-> 0,
                 viewport |-> << >>, options |-> << >>,
                 drawn |-> << >>,
                 registry |-> pageViewportSizes, stale |-> FALSE])

\* A press of the button "Apply signatures & Download", which is disabled
\* while no signature is placed: applySignaturesAndDownload() up to its
\* first await
ExportRequest ==
    /\ used < MaxEvents
    /\ ~ExportButtonDisabled
    /\ used' = used + 1
    /\ finished' = [op |-> "request"]
    /\ exports' = ApplySignaturesAndDownload
    /\ UNCHANGED <<rev, pdfArrayBuffer, numPages, scale, placedSignatures,
                   pageViewportSizes, pdfLibDocRef, heap, loads, clicks>>

\* Mutant of ExportDocument: the export draws on the handle kept in
\* pdfLibDocRef instead of parsing the stored bytes again.
ExportDocumentShared(h, bytes) == [doc |-> pdfLibDocRef, heap |-> h]

\* const pdfDoc = await PDFDocument.load(pdfArrayBuffer) in
\* applySignaturesAndDownload: a parse of the stored bytes into a document
\* of the export's own.
ExportDocument(h, bytes) == PDFDocumentLoad(h, bytes)

\* PDFDocument.load(pdfArrayBuffer) of the export k resolves or rejects
ExportLoaded(k) ==
    /\ k \in 1..Len(exports)
    /\ exports[k].pc = "load"
    /\ IF Files[exports[k].pdfArrayBuffer].valid
       THEN LET r == ExportDocument(heap, exports[k].pdfArrayBuffer)
            IN  /\ heap' = r.heap
                /\ exports' = [exports EXCEPT
                       ![k] = Resume([exports[k] EXCEPT !.pdfDoc = r.doc], 1)]
                /\ finished' = NoEvent
       ELSE /\ heap' = heap
            /\ exports' = Remove(exports, k)
            /\ finished' = Ended(exports[k], "parse failed", << >>)
    /\ UNCHANGED <<rev, pdfArrayBuffer, numPages, scale, placedSignatures,
                   pageViewportSizes, pdfLibDocRef, loads, clicks, used>>

\* page.drawImage(pngImage, options) on the document doc
DrawImage(doc, page, image, options) ==
    [doc EXCEPT !.overlays =
        Append(@, [page |-> page, image |-> image, options |-> options])]

\* pdfDoc.embedPng(pngImageBytes) of the export k resolves (ok) or rejects
ExportEmbedded(k, ok) ==
    /\ k \in 1..Len(exports)
    /\ exports[k].pc = "embed"
    /\ LET e == exports[k]
           sig == e.placedSignatures[e.i]
       IN  IF ok /\ sig.page \in 1..PageCount(heap[e.pdfDoc])
           THEN /\ heap' = [heap EXCEPT ![e.pdfDoc] =
                       DrawImage(@, sig.page, sig.imgDataUrl, e.options[1])]
                /\ exports' = [exports EXCEPT ![k] =
                       Resume([e EXCEPT !.drawn =
                                  Append(@, [sig |-> e.i,
                                             viewport |-> e.viewport[1]])],
                              e.i + 1)]
                /\ finished' = NoEvent
           ELSE /\ exports' = Remove(exports, k)
                /\ heap' = Collect(heap, Roots(pdfLibDocRef, exports'))
                /\ finished' = Ended(e, IF ok THEN "no such page"
                                               ELSE "embed failed",
                                      heap[e.pdfDoc].overlays)
    /\ UNCHANGED <<rev, pdfArrayBuffer, numPages, scale, placedSignatures,
                   pageViewportSizes, pdfLibDocRef, loads, clicks, used>>

\* pdfDoc.save() of the export k resolves and the signed bytes are downloaded
ExportSaved(k) ==
    /\ k \in 1..Len(exports)
    /\ exports[k].pc = "save"
    /\ exports' = Remove(exports, k)
    /\ heap' = Collect(heap, Roots(pdfLibDocRef, exports'))
    /\ finished' = Ended(exports[k], "downloaded",
                         heap[exports[k].pdfDoc].overlays)
    /\ UNCHANGED <<rev, pdfArrayBuffer, numPages, scale, placedSignatures,
                   pageViewportSizes, pdfLibDocRef, loads, clicks, used>>

----------------------------------------------------------------------------
(* The specification.                                                      *)

Init ==
    /\ rev \in {1, 2}
    /\ pdfArrayBuffer = Null
    /\ numPages = 0
    /\ scale = ScaleInit
    /\ placedSignatures = << >>
    /\ pageViewportSizes = << >>
    /\ pdfLibDocRef = 0
    /\ heap = << >>
    /\ loads = << >>
    /\ clicks = << >>
    /\ exports = << >>
    /\ finished = NoEvent
    /\ used = 0

Next ==
    \/ \E f \in FileNames : UploadStart(f)
    \/ \E k \in DOMAIN loads : UploadRead(k)
    \/ \E k \in DOMAIN loads : UploadParsed(k)
    \/ OnLoadSuccess
    \/ \E p \in PageNumbers : OnPageRenderSuccess(p)
    \/ \E v \in Scales : SetScale(v)
    \/ \E p \in PageNumbers, pt \in ClickPoints : OnPageClick(p, pt)
    \/ \E k \in DOMAIN clicks : ImgOnload(k)
    \/ \E i \in DOMAIN placedSignatures :
          \E d \in DragPositions(placedSignatures[i]) : OnDragStop(i, d)
    \/ \E i \in DOMAIN placedSignatures, style \in ResizeStyles,
          pos \in ResizePositions : OnResizeStop(i, style, pos)
    \/ ExportRequest
    \/ \E k \in DOMAIN exports : ExportLoaded(k)
    \/ \E k \in DOMAIN exports, ok \in BOOLEAN : ExportEmbedded(k, ok)
    \/ \E k \in DOMAIN exports : ExportSaved(k)

Spec == Init /\ [][Next]_vars

----------------------------------------------------------------------------
(* Properties.                                                             *)

\* All four dimensions of a viewport entry are positive.
ValidEntry(v) ==
    /\ Less(Num(0), v.width)
    /\ Less(Num(0), v.height)
    /\ Less(Num(0), v.pdfWidth)
    /\ Less(Num(0), v.pdfHeight)

\* What the suspended exports have drawn so far: each overlay with the
\* placement it was drawn for, the viewport entry read for it and the
\* registry as it was when the export started.
DrawnOverlays ==
    { [o   |-> heap[exports[k].pdfDoc].overlays[n],
       sig |-> exports[k].placedSignatures[exports[k].drawn[n].sig],
       viewport |-> exports[k].drawn[n].viewport,
       start |-> exports[k].registry] :
      <<k, n>> \in { <<k, n>> \in (DOMAIN exports) \X (1..MaxEvents) :
                        /\ exports[k].pdfDoc # 0
                        /\ n \in DOMAIN exports[k].drawn
                        /\ n \in DOMAIN heap[exports[k].pdfDoc].overlays } }

\* The viewport entry and the display rectangle of the spec's scenario.
ScenarioEntry ==
    [width |-> Num(600), height |-> Num(800),
     pdfWidth |-> Num(300), pdfHeight |-> Num(400)]

ScenarioSig ==
    [id |-> 1, page |-> 1, imgDataUrl |-> CanvasToDataURL,
     displayX |-> Num(100), displayY |-> Num(100),
     displayW |-> Num(60), displayH |-> Num(40)]

\* The rectangle the transform gives for the scenario.
ScenarioOptions == DrawOptions(ScenarioSig, ScenarioEntry)

\* C1: every rectangle an export hands to drawImage is px = x / sx,
\* py = (displayHeight - (y + h)) / sy, pw = w / sx, ph = h / sy for the
\* viewport entry read for the placement's page, with sx = displayWidth /
\* pdfWidth and sy = displayHeight / pdfHeight (stated without the
\* intermediate quotients: px * displayWidth = x * pdfWidth, and so on); the
\* overlay is on the placement's page and shows its image; and entry
\* {600, 800, 300, 400} with rectangle {100, 100, 60, 40} gives
\* {50, 330, 30, 20}.
C1_DrawnRectangle ==
    /\ \A d \in DrawnOverlays :
          ValidEntry(d.viewport) =>
             /\ d.o.page = d.sig.page
             /\ d.o.image = d.sig.imgDataUrl
             /\ Mul(d.o.options.x, d.viewport.width)
                   = Mul(d.sig.displayX, d.viewport.pdfWidth)
             /\ Mul(d.o.options.y, d.viewport.height)
                   = Mul(Sub(d.viewport.height,
                             Add(d.sig.displayY, d.sig.displayH)),
                         d.viewport.pdfHeight)
             /\ Mul(d.o.options.width, d.viewport.width)
                   = Mul(d.sig.displayW, d.viewport.pdfWidth)
             /\ Mul(d.o.options.height, d.viewport.height)
                   = Mul(d.sig.displayH, d.viewport.pdfHeight)
    /\ ScenarioOptions
          = [x |-> Num(50), y |-> Num(330), width |-> Num(30),
             height |-> Num(20)]

\* C1 witness: an export has drawn a placement that was resized to 60 by 40
\* pixels at (100, 100).
C1_Witness ==
    \E d \in DrawnOverlays :
       /\ ValidEntry(d.viewport)
       /\ d.sig.displayW = Num(60)
       /\ d.sig.displayX = Num(100)
       /\ IsFinite(d.o.options.y)

\* The distances a rectangle is moved down by to compare the results.
Shifts == { <<1, 2>>, Num(1), Num(25) }

\* C2: for every rectangle an export draws that lies inside the page, a top
\* edge at display y = 0 gives point-space y = pdfHeight - ph, a bottom edge
\* at y + h = displayHeight gives point-space y = 0, and the same rectangle
\* further down the page gets a strictly smaller point-space y.
C2_VerticalFlip ==
    \A d \in DrawnOverlays :
       (/\ ValidEntry(d.viewport)
        /\ ~Less(d.sig.displayY, Num(0))
        /\ ~Less(d.viewport.height, Add(d.sig.displayY, d.sig.displayH)))
       =>
          /\ d.sig.displayY = Num(0) =>
                d.o.options.y = Sub(d.viewport.pdfHeight, d.o.options.height)
          /\ Add(d.sig.displayY, d.sig.displayH) = d.viewport.height =>
                d.o.options.y = Num(0)
          /\ \A s \in Shifts :
                Less(PdfY([d.sig EXCEPT !.displayY = Add(@, s)], d.viewport),
                     d.o.options.y)
          /\ PdfY([d.sig EXCEPT !.displayY = Num(0)], d.viewport)
                = Sub(d.viewport.pdfHeight, d.o.options.height)
          /\ PdfY([d.sig EXCEPT !.displayY =
                      Sub(d.viewport.height, d.sig.displayH)], d.viewport)
                = Num(0)

\* C2 witness: an export has drawn a placement that was dragged to the top
\* edge of its page.
C2_Witness ==
    \E d \in DrawnOverlays :
       /\ ValidEntry(d.viewport)
       /\ d.sig.displayY = Num(0)
       /\ d.o.options.y = Sub(d.viewport.pdfHeight, d.o.options.height)
       /\ Less(Num(0), d.o.options.y)

\* C3: the step that places a signature (img.onload of a click on a page with
\* a viewport entry) appends exactly one record and changes no record placed
\* before; the record's displayW is 30% of the display width of the entry
\* read at the click, displayH / displayW is ih / iw of the image, and the
\* centre of the rectangle is the click point.
C3_PlaceGeometry ==
    [][(Len(placedSignatures') # Len(placedSignatures)
           \/ Len(clicks') < Len(clicks))
       => \E k \in DOMAIN clicks :
             LET c   == clicks[k]
                 new == placedSignatures'[Len(placedSignatures')]
             IN  /\ clicks' = Remove(clicks, k)
                 /\ Len(placedSignatures') = Len(placedSignatures) + 1
                 /\ SubSeq(placedSignatures', 1, Len(placedSignatures))
                       = placedSignatures
                 /\ new.page = c.page
                 /\ new.imgDataUrl = c.dataUrl
                 /\ Mul(new.displayW, Num(10)) = Mul(c.viewport.width, Num(3))
                 /\ Mul(new.displayH, Num(c.dataUrl.width))
                       = Mul(new.displayW, Num(c.dataUrl.height))
                 /\ Add(new.displayX, Div(new.displayW, Num(2))) = c.clickX
                 /\ Add(new.displayY, Div(new.displayH, Num(2))) = c.clickY
      ]_vars

\* C3 witness: a second signature has just been placed next to an earlier
\* one, 30% of the page's display width wide.
C3_Witness ==
    /\ finished.op = "place"
    /\ Len(placedSignatures) = 2
    /\ placedSignatures[2].page = finished.click.page
    /\ Mul(placedSignatures[2].displayW, Num(10))
          = Mul(finished.click.viewport.width, Num(3))

\* C4: a click on a page that has no viewport entry, and an export request
\* made while no document is loaded, change nothing: the placements, the
\* pending placements, the registry, the stored bytes, the parsed handle,
\* every parsed document and the running exports are as before.  The button
\* cannot be pressed before a signature is placed, so for the export the
\* handler itself is evaluated in every state without a document: it starts
\* no export.
C4_NotReadyNoChange ==
    [][/\ ((finished'.op = "click"
              /\ finished'.page \notin DOMAIN pageViewportSizes)
           \/ (finished'.op = "request"
              /\ (pdfArrayBuffer = Null \/ pdfLibDocRef = 0)))
          => UNCHANGED <<placedSignatures, clicks, pageViewportSizes,
                         pdfArrayBuffer, numPages, pdfLibDocRef, heap, loads,
                         exports>>
       /\ (pdfArrayBuffer = Null \/ pdfLibDocRef = 0)
          => ApplySignaturesAndDownload = exports
      ]_vars

\* C4 witness: a page that is shown but has no viewport entry yet has been
\* clicked, and no placement has been added or started.
C4_Witness ==
    /\ finished.op = "click"
    /\ ContainerExists(finished.page)
    /\ finished.page \notin DOMAIN pageViewportSizes
    /\ clicks = << >>
    /\ placedSignatures = << >>

\* The number of signatures of sigs whose page has no entry in registry.
Lacking(sigs, registry) ==
    Cardinality({ i \in DOMAIN sigs : sigs[i].page \notin DOMAIN registry })

\* C5: an export whose stored bytes parse and whose images all decode ends
\* with a download, has drawn every placement whose page has a viewport
\* entry and none whose page lacks one, and has reported as many skipped
\* placements as lack an entry.
C5_MissingViewportIsolation ==
    (/\ finished.op = "export"
     /\ Files[finished.pdfArrayBuffer].valid
     /\ finished.status # "embed failed"
     /\ ~finished.stale)
    => /\ finished.status = "downloaded"
       /\ { finished.drawn[n].sig : n \in DOMAIN finished.drawn }
             = { i \in DOMAIN finished.placedSignatures :
                   finished.placedSignatures[i].page
                       \in DOMAIN finished.registry }
       /\ finished.warned
             = Lacking(finished.placedSignatures, finished.registry)

\* The overlays of sigs from index i on, computed against registry: one for
\* each signature whose page has an entry, in the order of the list.
RECURSIVE Composite(_, _, _)
Composite(sigs, registry, i) ==
    IF i > Len(sigs) THEN << >>
    ELSE (IF sigs[i].page \in DOMAIN registry
          THEN << [page |-> sigs[i].page, image |-> sigs[i].imgDataUrl,
                   options |-> DrawOptions(sigs[i],
                                           registry[sigs[i].page])] >>
          ELSE << >>)
         \o Composite(sigs, registry, i + 1)

\* C6: the overlays of a downloaded export are those of its placements
\* against the registry, whatever exports ran before (when the registry did
\* not change meanwhile); every export draws on a document of its own, parsed
\* from the stored bytes, that is neither the parsed handle nor the document
\* of another export; the handle carries no overlay; and no step of an
\* export changes the stored bytes, the handle or the handle's document.
C6_ExportIdempotent ==
    /\ [](/\ (/\ finished.op = "export"
              /\ finished.status = "downloaded"
              /\ ~finished.stale)
             => finished.overlays
                   = Composite(finished.placedSignatures,
                               finished.registry, 1)
          /\ pdfLibDocRef # 0 => heap[pdfLibDocRef].overlays = << >>
          /\ \A k \in DOMAIN exports :
                exports[k].pdfDoc # 0 =>
                   /\ exports[k].pdfDoc # pdfLibDocRef
                   /\ heap[exports[k].pdfDoc].src = exports[k].pdfArrayBuffer
                   /\ \A j \in DOMAIN exports :
                         j # k => exports[j].pdfDoc # exports[k].pdfDoc)
    /\ [][(exports' # exports \/ finished'.op \in {"request", "export"})
          => /\ pdfArrayBuffer' = pdfArrayBuffer
             /\ pdfLibDocRef' = pdfLibDocRef
             /\ pdfLibDocRef # 0 => heap'[pdfLibDocRef] = heap[pdfLibDocRef]
         ]_vars

\* C6 witness: an export has been downloaded with an overlay, and a later
\* export of the same placements, about to save, holds the same overlays.
C6_Witness ==
    /\ finished.op = "export"
    /\ finished.status = "downloaded"
    /\ Len(finished.overlays) >= 1
    /\ \E k \in DOMAIN exports :
          /\ exports[k].pc = "save"
          /\ exports[k].placedSignatures = finished.placedSignatures
          /\ heap[exports[k].pdfDoc].overlays = finished.overlays

\* C7: no two exports of placed signatures are in flight for the same
\* stored document.
C7_OneExportInFlight ==
    \A j, k \in DOMAIN exports :
       (/\ j # k
        /\ exports[j].placedSignatures # << >>
        /\ exports[k].placedSignatures # << >>)
       => exports[j].pdfArrayBuffer # exports[k].pdfArrayBuffer

\* C8: every overlay an export has drawn has the rectangle of its placement
\* against the viewport entry the page had when the export started.
C8_ExportSnapshot ==
    \A d \in DrawnOverlays :
       /\ d.sig.page \in DOMAIN d.start
       /\ d.o.options = DrawOptions(d.sig, d.start[d.sig.page])

\* C9: when the entry of a page is refreshed to a new display size of the
\* same page, the point-space rectangle of every placement on the page that
\* the step leaves alone is the same against the new entry as against the
\* old one.
C9_ZoomKeepsMapping ==
    [][\A i \in DOMAIN placedSignatures :
          LET sig == placedSignatures[i]
          IN  (/\ i \in DOMAIN placedSignatures'
               /\ placedSignatures'[i] = sig
               /\ sig.page \in DOMAIN pageViewportSizes
               /\ sig.page \in DOMAIN pageViewportSizes'
               /\ pageViewportSizes'[sig.page].pdfWidth
                     = pageViewportSizes[sig.page].pdfWidth
               /\ pageViewportSizes'[sig.page].pdfHeight
                     = pageViewportSizes[sig.page].pdfHeight)
              => DrawOptions(sig, pageViewportSizes'[sig.page])
                    = DrawOptions(sig, pageViewportSizes[sig.page])
      ]_vars

\* C10: an export whose placements are all on pages of the stored document
\* ends with a download unless the stored bytes do not parse; an image that
\* does not decode does not end it.
C10_DecodeFailureContained ==
    (/\ finished.op = "export"
     /\ Files[finished.pdfArrayBuffer].valid
     /\ \A i \in DOMAIN finished.placedSignatures :
           finished.placedSignatures[i].page
              \in 1..Len(Files[finished.pdfArrayBuffer].pages))
    => finished.status = "downloaded"

\* C11: no overlay an export has drawn has a coordinate or a size that is
\* Infinity or NaN, and none was computed against a viewport entry with a
\* dimension that is not positive.
C11_NoDivisionByZeroGeometry ==
    \A d \in DrawnOverlays :
       /\ ValidEntry(d.viewport)
       /\ IsFinite(d.o.options.x)
       /\ IsFinite(d.o.options.y)
       /\ IsFinite(d.o.options.width)
       /\ IsFinite(d.o.options.height)

\* C12: every entry of the viewport registry has four positive dimensions.
C12_RegistryEntriesPositive ==
    \A p \in DOMAIN pageViewportSizes : ValidEntry(pageViewportSizes[p])

\* C13: every placed signature has a positive display width and a positive
\* display height.
C13_PlacementSizePositive ==
    \A i \in DOMAIN placedSignatures :
       /\ Less(Num(0), placedSignatures[i].displayW)
       /\ Less(Num(0), placedSignatures[i].displayH)

\* C14: while a document is loaded, every placed signature is on a page of
\* it: its page number is between 1 and the page count of the stored bytes
\* and of the parsed handle.
C14_PlacementPageInDocument ==
    \A i \in DOMAIN placedSignatures :
       /\ (pdfArrayBuffer # Null /\ Files[pdfArrayBuffer].valid)
             => placedSignatures[i].page
                   \in 1..Len(Files[pdfArrayBuffer].pages)
       /\ pdfLibDocRef # 0
             => placedSignatures[i].page \in 1..PageCount(heap[pdfLibDocRef])

\* C15: the pages of the overlays an export has drawn are in non-decreasing
\* order.
C15_DrawnInPageOrder ==
    \A k \in DOMAIN exports :
       exports[k].pdfDoc # 0 =>
          LET overlays == heap[exports[k].pdfDoc].overlays
          IN  \A m, n \in DOMAIN overlays :
                 m < n => overlays[m].page <= overlays[n].page

\* Ids no placed signature has.
UnknownIds == {0}

\* C16: a step of onDragStop changes only displayX and displayY of the
\* record with the id, a step of onResizeStop only displayW, displayH,
\* displayX and displayY of it; the id, the page and the image of every
\* record, every other record, and the number and the order of the records
\* are unchanged; and a move or a resize with an id that no record has
\* leaves the list as it is.
C16_MoveResizeFrame ==
    [][/\ finished'.op \in {"move", "resize"} =>
          /\ Len(placedSignatures') = Len(placedSignatures)
          /\ \A j \in DOMAIN placedSignatures :
                LET old == placedSignatures[j]
                    new == placedSignatures'[j]
                IN  /\ new.id = old.id
                    /\ new.page = old.page
                    /\ new.imgDataUrl = old.imgDataUrl
                    /\ old.id # finished'.id => new = old
                    /\ finished'.op = "move" =>
                          /\ new.displayW = old.displayW
                          /\ new.displayH = old.displayH
       /\ \A id \in UnknownIds, pos \in ResizePositions :
             /\ Move(placedSignatures, id, pos) = placedSignatures
             /\ \A style \in ResizeStyles :
                   Resize(placedSignatures, id, style, pos)
                      = placedSignatures
      ]_vars

\* C16 witness: one of two signatures placed at the same point has just been
\* dragged away, and the other is where it was.
C16_Witness ==
    /\ finished.op = "move"
    /\ Len(placedSignatures) = 2
    /\ \E i, j \in DOMAIN placedSignatures :
          /\ placedSignatures[i].id = finished.id
          /\ placedSignatures[j].id # finished.id
          /\ placedSignatures[i].page = placedSignatures[j].page
          /\ placedSignatures[i].displayY # placedSignatures[j].displayY
          /\ placedSignatures[i].displayW = placedSignatures[j].displayW

\* C17: when the bytes and the handle are both set, the handle is a parse of
\* the stored bytes.
C17_BytesAndHandleAgree ==
    (pdfArrayBuffer # Null /\ pdfLibDocRef # 0)
    => heap[pdfLibDocRef].src = pdfArrayBuffer

============================================================================
